---- MODULE Spec2Model ----
(***************************************************************************)
(* Model of the array-bytes crate (src/src/lib.rs): hex text <-> bytes,    *)
(* slice/vec -> fixed array, and numeric hex parsing.                      *)
(*                                                                         *)
(* Bytes and characters are their u8 / code point values.  A Rust slice    *)
(* index i (0-based) is element i + 1 of the TLA+ sequence.                *)
(* A call returns Ok(v) / Err(e) for a Result, Value(v) for a plain value, *)
(* and Panic when the code aborts (unwrap on None, index out of bounds).   *)
(***************************************************************************)
EXTENDS Integers, Sequences, FiniteSets

VARIABLES op, prefix, bytes, hex, slice0, slice, N, chained, ret

vars == <<op, prefix, bytes, hex, slice0, slice, N, chained, ret>>

(* ---------------------------- bounds ----------------------------------- *)

\* longest hex body (characters after the optional prefix) given to a decoder
MaxLen == 4
\* longest text body given to the numeric parser
MaxNumLen == 3
\* longest byte buffer given to bytes2hex, slice2array and vec2array
MaxBytes == 2
\* longest destination buffer given to hex2slice
MaxSlice == 3
\* largest array size N
MaxN == 3

(* ---------------------------- input sets ------------------------------- *)

Byte == 0..255

SeqsUpTo(S, n) == UNION {[1..k -> S] : k \in 0..n}

\* "0x"
Prefix0x == <<48, 120>>

\* '0' '9' 'a' 'F' 'x' 'z' DLE ' '
HexAlphabet == {48, 57, 97, 70, 120, 122, 16, 32}

\* bodies over the alphabet, each also behind a "0x" prefix, and every byte
\* value next to a '0'
HexInputs ==
  SeqsUpTo(HexAlphabet, MaxLen)
    \cup {Prefix0x \o b : b \in SeqsUpTo(HexAlphabet, MaxLen)}
    \cup {<<c, 48>> : c \in Byte} \cup {<<48, c>> : c \in Byte}

\* '0' '1' '8' 'f' 'F' 'x' 'g' '+' '-' ' '
NumAlphabet == {48, 49, 56, 102, 70, 120, 103, 43, 45, 32}

NumTexts ==
  SeqsUpTo(NumAlphabet, MaxNumLen)
    \cup {Prefix0x \o b : b \in SeqsUpTo(NumAlphabet, MaxNumLen)}

ByteSamples == {0, 9, 10, 76, 171, 255}

ByteBufs == SeqsUpTo(ByteSamples, MaxBytes) \cup {<<c>> : c \in Byte}

Prefixes == {<<>>, Prefix0x}

\* destination buffers: byte i holds 0x55 + i before the call
Slices == {[i \in 1..k |-> 84 + i] : k \in 0..MaxSlice}

(* ---------------------------- results ---------------------------------- *)

Ok(v) == [kind |-> "Ok", val |-> v]

Err(e) == [kind |-> "Err", err |-> e]

Value(v) == [kind |-> "Value", val |-> v]

Panic == [kind |-> "Panic"]

InvalidLength == [type |-> "InvalidLength"]

InvalidCharacter(c, i) == [type |-> "InvalidCharacter", character |-> c, index |-> i]

MismatchedLength(e) == [type |-> "MismatchedLength", expect |-> e]

ParseIntError(k) == [type |-> "ParseIntError", inner |-> k]

(* ---------------------------- helpers ---------------------------------- *)

starts_with_0x(s) == Len(s) >= 2 /\ s[1] = 48 /\ s[2] = 120

strip_0x(s) == IF starts_with_0x(s) THEN SubSeq(s, 3, Len(s)) ELSE s

strip_0x_bytes(s) == IF starts_with_0x(s) THEN SubSeq(s, 3, Len(s)) ELSE s

\* byte | 0b10_0000
or_0x20(b) == IF (b \div 32) % 2 = 1 THEN b ELSE b + 32

is_hex_ascii(byte) ==
  LET b == or_0x20(byte) IN (b >= 48 /\ b <= 57) \/ (b >= 97 /\ b <= 102)

NoDigit == -1

\* Option<u8>: NoDigit stands for None
hex_ascii2digit(hex_ascii) ==
  LET b == or_0x20(hex_ascii) IN
    IF b >= 48 /\ b <= 57 THEN b - 48
    ELSE IF b >= 97 /\ b <= 102 THEN b - 97 + 10
    ELSE NoDigit

hex2byte(hex_ascii_1, hex_ascii_2) ==
  LET d1 == hex_ascii2digit(hex_ascii_1[1])
      d2 == hex_ascii2digit(hex_ascii_2[1])
  IN  IF d1 = NoDigit THEN Err(InvalidCharacter(hex_ascii_1[1], hex_ascii_1[2]))
      ELSE IF d2 = NoDigit THEN Err(InvalidCharacter(hex_ascii_2[1], hex_ascii_2[2]))
      ELSE Ok(((d1 * 16) % 256) + d2)

hex2byte_unchecked_swapped(hex_ascii_1, hex_ascii_2) ==
  LET d1 == hex_ascii2digit(hex_ascii_1)
      d2 == hex_ascii2digit(hex_ascii_2)
  IN  IF d1 = NoDigit \/ d2 = NoDigit THEN Panic
      ELSE Value(((d2 * 16) % 256) + d1)

hex2byte_unchecked(hex_ascii_1, hex_ascii_2) ==
  LET d1 == hex_ascii2digit(hex_ascii_1)
      d2 == hex_ascii2digit(hex_ascii_2)
  IN  IF d1 = NoDigit \/ d2 = NoDigit THEN Panic
      ELSE Value(((d1 * 16) % 256) + d2)

(* ---------------------------- conversions ---------------------------- *)

slice2array(n, s) == IF Len(s) = n THEN Ok(s) ELSE Err(MismatchedLength(n))

vec2array(n, vec) == IF Len(vec) = n THEN Ok(vec) ELSE Err(MismatchedLength(n))

RECURSIVE hex_bytes2hex_str_loop(_, _)
\* the for loop of hex_bytes2hex_str, from 0-based index i on
hex_bytes2hex_str_loop(bs, i) ==
  IF i >= Len(bs) THEN Ok(bs)
  ELSE IF ~is_hex_ascii(bs[i + 1]) THEN Err(InvalidCharacter(bs[i + 1], i))
  ELSE hex_bytes2hex_str_loop(bs, i + 1)

hex_bytes2hex_str(bs) ==
  hex_bytes2hex_str_loop(bs, IF starts_with_0x(bs) THEN 2 ELSE 0)

\* char::from_digit(d, 16).unwrap()
from_digit(d) == IF d < 10 THEN 48 + d ELSE 97 + (d - 10)

RECURSIVE bytes2hex_loop(_, _, _)
\* bytes.iter().for_each(..), from 0-based index i on
bytes2hex_loop(bs, i, h) ==
  IF i >= Len(bs) THEN h
  ELSE bytes2hex_loop(bs, i + 1,
         Append(Append(h, from_digit(bs[i + 1] \div 16)), from_digit(bs[i + 1] % 16)))

bytes2hex_low_nibble_first(p, bs) ==
  LET F[i \in 0..Len(bs)] ==
        IF i = 0 THEN p
        ELSE Append(Append(F[i - 1], from_digit(bs[i] % 16)), from_digit(bs[i] \div 16))
  IN  F[Len(bs)]

bytes2hex(p, bs) == bytes2hex_loop(bs, 0, p)

RECURSIVE hex2bytes_loop(_, _, _)
\* for i in (0..hex.len()).step_by(2) { bytes.push(hex2byte(..)?) }
hex2bytes_loop(h, i, bs) ==
  IF i >= Len(h) THEN Ok(bs)
  ELSE IF i + 1 >= Len(h) THEN Panic
  ELSE LET r == hex2byte(<<h[i + 1], i>>, <<h[i + 2], i + 1>>)
       IN  IF r.kind = "Ok" THEN hex2bytes_loop(h, i + 2, Append(bs, r.val)) ELSE r

hex2bytes_no_length_check(hex_in) ==
  hex2bytes_loop(strip_0x_bytes(hex_in), 0, <<>>)

hex2bytes_length_check_last(hex_in) ==
  LET h == strip_0x_bytes(hex_in)
      r == hex2bytes_loop(SubSeq(h, 1, Len(h) - (Len(h) % 2)), 0, <<>>)
  IN  IF r.kind # "Ok" THEN r
      ELSE IF Len(h) % 2 # 0 THEN Err(InvalidLength)
      ELSE r

hex2bytes(hex_in) ==
  LET h == strip_0x_bytes(hex_in)
  IN  IF Len(h) % 2 # 0 THEN Err(InvalidLength)
      ELSE hex2bytes_loop(h, 0, <<>>)

RECURSIVE hex2bytes_unchecked_loop(_, _, _)
\* (0..hex.len()).step_by(2).map(|i| hex2byte_unchecked(..)).collect()
hex2bytes_unchecked_loop(h, i, bs) ==
  IF i >= Len(h) THEN Value(bs)
  ELSE IF i + 1 >= Len(h) THEN Panic
  ELSE LET r == hex2byte_unchecked(h[i + 1], h[i + 2])
       IN  IF r.kind = "Value" THEN hex2bytes_unchecked_loop(h, i + 2, Append(bs, r.val))
           ELSE Panic

hex2bytes_unchecked(hex_in) ==
  hex2bytes_unchecked_loop(strip_0x_bytes(hex_in), 0, <<>>)

RECURSIVE hex2slice_loop(_, _, _)
\* for (byte, i) in slice.iter_mut().zip((0..hex.len()).step_by(2)); k counts
\* the pairs already taken from the zip
hex2slice_loop(h, s, k) ==
  IF k >= Len(s) \/ 2 * k >= Len(h) THEN [ret |-> Ok(s), slice |-> s]
  ELSE IF 2 * k + 1 >= Len(h) THEN [ret |-> Panic, slice |-> s]
  ELSE LET r == hex2byte(<<h[2 * k + 1], 2 * k>>, <<h[2 * k + 2], 2 * k + 1>>)
       IN  IF r.kind = "Ok" THEN hex2slice_loop(h, [s EXCEPT ![k + 1] = r.val], k + 1)
           ELSE [ret |-> r, slice |-> s]

hex2slice_mismatch_check_last(hex_in, s) ==
  LET h == strip_0x_bytes(hex_in)
      expected_len == Len(h) \div 2
      w == hex2slice_loop(h, s, 0)
  IN  IF Len(h) % 2 # 0 THEN [ret |-> Err(InvalidLength), slice |-> s]
      ELSE IF expected_len # Len(s)
        THEN [ret |-> Err(MismatchedLength(expected_len)), slice |-> w.slice]
      ELSE w

\* the record holds the returned Result and the destination buffer afterwards
hex2slice(hex_in, s) ==
  LET h == strip_0x_bytes(hex_in)
      expected_len == Len(h) \div 2
  IN  IF Len(h) % 2 # 0 THEN [ret |-> Err(InvalidLength), slice |-> s]
      ELSE IF expected_len # Len(s)
        THEN [ret |-> Err(MismatchedLength(expected_len)), slice |-> s]
      ELSE hex2slice_loop(h, s, 0)

hex2array(n, hex_in) ==
  LET r == hex2bytes(hex_in)
  IN  IF r.kind = "Ok" THEN vec2array(n, r.val) ELSE r

(* ---------------------------- numeric parsing ------------------------ *)

\* (c as char).to_digit(16), NoDigit for None
to_digit(c) ==
  IF c >= 48 /\ c <= 57 THEN c - 48
  ELSE IF c >= 97 /\ c <= 102 THEN c - 97 + 10
  ELSE IF c >= 65 /\ c <= 70 THEN c - 65 + 10
  ELSE NoDigit

RECURSIVE from_str_radix_loop(_, _, _, _, _, _)
\* the digit loop of core::num's from_str_radix for radix 16: checked_mul,
\* then checked_add (positive) or checked_sub (negative), within min..max
from_str_radix_loop(digits, i, result, is_positive, min, max) ==
  IF i >= Len(digits) THEN Ok(result)
  ELSE LET x == to_digit(digits[i + 1])
           r == IF is_positive THEN result * 16 + x ELSE result * 16 - x
       IN  IF x = NoDigit THEN Err(ParseIntError("InvalidDigit"))
           ELSE IF r > max THEN Err(ParseIntError("PosOverflow"))
           ELSE IF r < min THEN Err(ParseIntError("NegOverflow"))
           ELSE from_str_radix_loop(digits, i + 1, r, is_positive, min, max)

\* <int>::from_str_radix(src, 16).map_err(Error::ParseIntError)
from_str_radix(src, is_signed_ty, min, max) ==
  IF Len(src) = 0 THEN Err(ParseIntError("Empty"))
  ELSE IF src[1] \in {43, 45} /\ Len(src) = 1 THEN Err(ParseIntError("InvalidDigit"))
  ELSE IF src[1] = 43 THEN from_str_radix_loop(Tail(src), 0, 0, TRUE, min, max)
  ELSE IF src[1] = 45 /\ is_signed_ty THEN from_str_radix_loop(Tail(src), 0, 0, FALSE, min, max)
  ELSE from_str_radix_loop(src, 0, 0, TRUE, min, max)

try_from_hex_u8(hex_in) == from_str_radix(strip_0x(hex_in), FALSE, 0, 255)

try_from_hex_i8(hex_in) == from_str_radix(strip_0x(hex_in), TRUE, -128, 127)

(* ---------------------------- state machine ---------------------------- *)

Init ==
  /\ op = "idle"
  /\ prefix = <<>>
  /\ bytes = <<>>
  /\ hex = <<>>
  /\ slice0 = <<>>
  /\ slice = <<>>
  /\ N = 0
  /\ chained = FALSE
  /\ ret = [kind |-> "None"]

Slice2Array ==
  /\ op = "idle"
  /\ \E b \in ByteBufs, n \in 0..MaxN :
       /\ bytes' = b
       /\ N' = n
       /\ ret' = slice2array(n, b)
  /\ op' = "slice2array"
  /\ UNCHANGED <<prefix, hex, slice0, slice, chained>>

Vec2Array ==
  /\ op = "idle"
  /\ \E b \in ByteBufs, n \in 0..MaxN :
       /\ bytes' = b
       /\ N' = n
       /\ ret' = vec2array(n, b)
  /\ op' = "vec2array"
  /\ UNCHANGED <<prefix, hex, slice0, slice, chained>>

HexBytes2HexStr ==
  /\ op = "idle"
  /\ \E h \in HexInputs :
       /\ hex' = h
       /\ ret' = hex_bytes2hex_str(h)
  /\ op' = "hex_bytes2hex_str"
  /\ UNCHANGED <<prefix, bytes, slice0, slice, N, chained>>

Bytes2Hex ==
  /\ op = "idle"
  /\ \E p \in Prefixes, b \in ByteBufs :
       /\ prefix' = p
       /\ bytes' = b
       /\ ret' = Value(bytes2hex(p, b))
  /\ op' = "bytes2hex"
  /\ UNCHANGED <<hex, slice0, slice, N, chained>>

Hex2Bytes ==
  /\ op = "idle"
  /\ \E h \in HexInputs :
       /\ hex' = h
       /\ ret' = hex2bytes(h)
  /\ op' = "hex2bytes"
  /\ UNCHANGED <<prefix, bytes, slice0, slice, N, chained>>

\* the caller decodes the text the preceding bytes2hex call returned
Hex2BytesOfBytes2Hex ==
  /\ op = "bytes2hex"
  /\ hex' = ret.val
  /\ ret' = hex2bytes(ret.val)
  /\ op' = "hex2bytes"
  /\ chained' = TRUE
  /\ UNCHANGED <<prefix, bytes, slice0, slice, N>>

Hex2BytesUnchecked ==
  /\ op = "idle"
  /\ \E h \in HexInputs :
       /\ hex' = h
       /\ ret' = hex2bytes_unchecked(h)
  /\ op' = "hex2bytes_unchecked"
  /\ UNCHANGED <<prefix, bytes, slice0, slice, N, chained>>

Hex2Slice ==
  /\ op = "idle"
  /\ \E h \in HexInputs, s \in Slices :
       LET w == hex2slice(h, s)
       IN  /\ hex' = h
           /\ slice0' = s
           /\ slice' = w.slice
           /\ ret' = w.ret
  /\ op' = "hex2slice"
  /\ UNCHANGED <<prefix, bytes, N, chained>>

Hex2Array ==
  /\ op = "idle"
  /\ \E h \in HexInputs, n \in 0..MaxN :
       /\ hex' = h
       /\ N' = n
       /\ ret' = hex2array(n, h)
  /\ op' = "hex2array"
  /\ UNCHANGED <<prefix, bytes, slice0, slice, chained>>

TryFromHexU8 ==
  /\ op = "idle"
  /\ \E t \in NumTexts :
       /\ hex' = t
       /\ ret' = try_from_hex_u8(t)
  /\ op' = "try_from_hex_u8"
  /\ UNCHANGED <<prefix, bytes, slice0, slice, N, chained>>

TryFromHexI8 ==
  /\ op = "idle"
  /\ \E t \in NumTexts :
       /\ hex' = t
       /\ ret' = try_from_hex_i8(t)
  /\ op' = "try_from_hex_i8"
  /\ UNCHANGED <<prefix, bytes, slice0, slice, N, chained>>

Next ==
  \/ Slice2Array
  \/ Vec2Array
  \/ HexBytes2HexStr
  \/ Bytes2Hex
  \/ Hex2Bytes
  \/ Hex2BytesOfBytes2Hex
  \/ Hex2BytesUnchecked
  \/ Hex2Slice
  \/ Hex2Array
  \/ TryFromHexU8
  \/ TryFromHexI8

Spec == Init /\ [][Next]_vars

(* ---------------------------- properties ------------------------------- *)

\* the 22 characters '0'-'9', 'a'-'f', 'A'-'F'
IsHexDigit(c) == c \in (48..57) \cup (97..102) \cup (65..70)

HasPrefix(h) == Len(h) >= 2 /\ h[1] = 48 /\ h[2] = 120

\* number of characters of the optional "0x" prefix of h
PrefixLen(h) == IF HasPrefix(h) THEN 2 ELSE 0

\* number of characters remaining after the optional prefix
BodyLen(h) == Len(h) - PrefixLen(h)

\* 1-based positions in h, after the prefix, of the characters that are not hex digits
InvalidPositions(h) == {i \in (PrefixLen(h) + 1)..Len(h) : ~IsHexDigit(h[i])}

\* 1-based position in h of the leftmost character that is not a hex digit
LeftmostInvalid(h) == CHOOSE i \in InvalidPositions(h) : \A j \in InvalidPositions(h) : i <= j

\* an optional "0x" prefix followed by an even number of hex digits
ValidHexText(h) == BodyLen(h) % 2 = 0 /\ InvalidPositions(h) = {}

DigitValue(c) == IF c <= 57 THEN c - 48 ELSE IF c >= 97 THEN c - 87 ELSE c - 55

\* the byte that the k-th (0-based) digit pair after the prefix of h stands for
PairValue(h, k) ==
  DigitValue(h[PrefixLen(h) + 2 * k + 1]) * 16 + DigitValue(h[PrefixLen(h) + 2 * k + 2])

\* the base-16 value of the first n characters after the prefix of h
HexValue(h, n) ==
  LET V[i \in 0..n] == IF i = 0 THEN 0 ELSE V[i - 1] * 16 + DigitValue(h[PrefixLen(h) + i])
  IN  V[n]

\* C1: decoding the text bytes2hex made of b, with prefix "0x" or "", returns Ok(b)
C1_RoundTrip ==
  (op = "hex2bytes" /\ chained) => ret = Ok(bytes)

C1_Witness ==
  /\ op = "hex2bytes" /\ chained
  /\ prefix = Prefix0x
  /\ bytes = <<171, 76>>
  /\ hex = <<48, 120, 97, 98, 52, 99>>
  /\ ret = Ok(bytes)

\* C2: an even-length body with a non-digit makes hex2bytes return
\* InvalidCharacter naming the leftmost such byte and its position counted
\* from the start of the original input, prefix included
C2_InvalidCharacterAbsoluteIndex ==
  (op = "hex2bytes" /\ BodyLen(hex) % 2 = 0 /\ InvalidPositions(hex) # {}) =>
    ret = Err(InvalidCharacter(hex[LeftmostInvalid(hex)], LeftmostInvalid(hex) - 1))

\* C3: an input with a byte outside the 22 hex digits after the optional
\* prefix is not decoded by hex2bytes and not accepted by hex_bytes2hex_str
C3_OnlyHexDigitsAccepted ==
  (op \in {"hex2bytes", "hex_bytes2hex_str"} /\ InvalidPositions(hex) # {}) =>
    ret.kind # "Ok"

\* C4: hex2bytes returns InvalidLength exactly when the body length is odd,
\* whatever the characters are, and a successful decode of L characters
\* yields L/2 bytes
C4_InvalidLengthIffOdd ==
  op = "hex2bytes" =>
    /\ (ret = Err(InvalidLength)) <=> (BodyLen(hex) % 2 = 1)
    /\ ret.kind = "Ok" => Len(ret.val) * 2 = BodyLen(hex)

C4_Witness ==
  /\ op = "hex2bytes"
  /\ hex = <<48, 120, 122, 97, 122>>
  /\ ret = Err(InvalidLength)

\* C5: on a valid hex text hex2bytes_unchecked does not abort and hex2bytes
\* returns Ok of what it returns
C5_UncheckedAgrees ==
  (op = "hex2bytes_unchecked" /\ ValidHexText(hex)) =>
    /\ ret.kind = "Value"
    /\ hex2bytes(hex) = Ok(ret.val)

C5_Witness ==
  /\ op = "hex2bytes_unchecked"
  /\ hex = <<48, 120, 97, 70, 57, 48>>
  /\ ret = Value(<<175, 144>>)

\* C6: with an even body whose half-length differs from the destination's
\* length, hex2slice returns MismatchedLength and leaves the destination as
\* it was, valid digits or not
C6_MismatchLeavesDestination ==
  (op = "hex2slice" /\ BodyLen(hex) % 2 = 0 /\ BodyLen(hex) \div 2 # Len(slice0)) =>
    /\ ret.kind = "Err"
    /\ ret.err.type = "MismatchedLength"
    /\ slice = slice0

C6_Witness ==
  /\ op = "hex2slice"
  /\ hex = <<48, 120, 97, 70, 122, 122>>
  /\ Len(slice0) = 1
  /\ ret.kind = "Err" /\ ret.err.type = "MismatchedLength"
  /\ slice = slice0

\* C7: MismatchedLength{expect} carries the length the target requires: N for
\* slice2array, vec2array and hex2array, the destination's length for hex2slice
C7_ExpectIsTargetLength ==
  (ret.kind = "Err" /\ ret.err.type = "MismatchedLength") =>
    /\ op \in {"slice2array", "vec2array", "hex2array"} => ret.err.expect = N
    /\ op = "hex2slice" => ret.err.expect = Len(slice0)

ErrorTypes == {"InvalidLength", "InvalidCharacter", "MismatchedLength", "ParseIntError"}

\* C8: hex2bytes, hex2slice, hex2array, hex_bytes2hex_str, slice2array and
\* vec2array return Ok or one of the Error variants on every input, never abort
C8_CheckedNeverPanics ==
  op \in {"hex2bytes", "hex2slice", "hex2array", "hex_bytes2hex_str", "slice2array", "vec2array"} =>
    \/ ret.kind = "Ok"
    \/ ret.kind = "Err" /\ ret.err.type \in ErrorTypes

C8_Witness ==
  /\ op = "hex2bytes"
  /\ hex = <<122>>
  /\ ret = Err(InvalidLength)

\* C9: try_from_hex for u8 and i8 is Ok(v) exactly when the text after the
\* optional prefix is a non-empty run of hex digits whose value v fits the
\* type, and Err(ParseIntError) otherwise
C9_NumericParse ==
  op \in {"try_from_hex_u8", "try_from_hex_i8"} =>
    LET fits == /\ BodyLen(hex) > 0
                /\ InvalidPositions(hex) = {}
                /\ HexValue(hex, BodyLen(hex)) <= (IF op = "try_from_hex_u8" THEN 255 ELSE 127)
    IN  IF fits THEN ret = Ok(HexValue(hex, BodyLen(hex)))
        ELSE ret.kind = "Err" /\ ret.err.type = "ParseIntError"

\* C10: when hex2slice passes its length checks, it returns Ok with every
\* destination byte the value of its digit pair, or, the leftmost non-digit
\* lying in pair k, InvalidCharacter with bytes 0..k-1 the values of their
\* pairs and bytes k.. as they were
C10_IncrementalWrite ==
  (op = "hex2slice" /\ BodyLen(hex) % 2 = 0 /\ BodyLen(hex) \div 2 = Len(slice0)) =>
    IF InvalidPositions(hex) = {}
    THEN /\ ret.kind = "Ok"
         /\ Len(slice) = Len(slice0)
         /\ \A i \in 1..Len(slice) : slice[i] = PairValue(hex, i - 1)
    ELSE LET k == (LeftmostInvalid(hex) - 1 - PrefixLen(hex)) \div 2
         IN  /\ ret.kind = "Err" /\ ret.err.type = "InvalidCharacter"
             /\ Len(slice) = Len(slice0)
             /\ \A i \in 1..Len(slice) :
                  slice[i] = IF i - 1 < k THEN PairValue(hex, i - 1) ELSE slice0[i]

====
